---- MODULE Spec2Model ----
(***************************************************************************)
(* Model of the service registry (canary/src/routes.rs), its introduction  *)
(* protocol, and the symmetric Noise handshake (src/async_snow.rs).        *)
(***************************************************************************)
EXTENDS Integers, Sequences, FiniteSets, TLC

VARIABLES
    routes,   \* [route id -> [key -> Storable or None]]: the DashMap of every Route
    task,     \* [task -> record of the task's latest completed Route call]
    nops,     \* number of Route calls linearized so far
    intro,    \* local state of one introduction (introduce_static or introduce_static_unspawn)
    chan,     \* the channel handed to the introduction: records on the wire, broken flag
    disp,     \* sequence of handler invocations f(chan, ctx)
    peer,     \* [peer -> local state of Snow::new_with_params on that end]
    net,      \* [peer -> FIFO of frames in flight to that peer]
    svc,      \* one expansion of #[service]: the declared parameters, the generated item
    pkt,      \* one record through encrypt_packets and decrypt: buffer, packets, result
    codec     \* one value through Format::serialize and Format::deserialize

routeVars == <<routes, task, nops>>
introVars == <<intro, chan, disp>>
snowVars == <<peer, net>>
pureVars == <<svc, pkt, codec>>
vars == <<routes, task, nops, intro, chan, disp, peer, net, svc, pkt, codec>>

----------------------------------------------------------------------------
(* Bounds of the model. *)

\* Route calls in one behaviour of Spec
MaxOps == 3
\* tokens (names and slashes) in a received path
MaxPathLen == 5
\* application records the dispatched handler writes
MaxHandlerWrites == 1
\* largest value of a coin-flip draw
MaxDraw == 2
\* rounds of the coin-flip a peer plays
MaxRounds == 2
\* application frames a peer sends after its handshake returned
MaxAppFrames == 1
\* Route calls made while an introduction is in progress, in one behaviour of ConcSpec
MaxConcOps == 1
\* tokens in the path of the introduction of ConcSpec
MaxConcPathLen == 3

Tasks == {"t1", "t2"}
Keys == {"a", "b"}
Services == {1, 2}
Root == 0
SubRoutes == {1}
Routes == {Root} \cup SubRoutes
\* the routes Route::default() creates during the calls of one behaviour
FreshRoutes == 2..(MaxOps + 1)
AllRoutes == Routes \cup FreshRoutes

----------------------------------------------------------------------------
(* Storable and the DashMap operations the Route uses. *)

None == [kind |-> "none", id |-> 0]
StService(T) == [kind |-> "service", id |-> T]
StRoute(r) == [kind |-> "route", id |-> r]
Storable == {StService(T) : T \in Services} \cup {StRoute(r) : r \in SubRoutes}

InnerRoute == [Keys -> Storable \cup {None}]
EmptyRoute == [k \in Keys |-> None]

\* T::ENDPOINT: the name of the declared function
ENDPOINT(T) == IF T = 1 THEN "a" ELSE "b"

\* DashMap::get: the entry at k, None when k is not a key of the map
DashGet(map, k) == IF k \in DOMAIN map THEN map[k] ELSE None

\* DashMap::insert: stores v at k whether or not k is occupied, returns the old entry
DashInsert(map, k, v) == [map |-> [map EXCEPT ![k] = v], old |-> map[k]]

\* DashMap::remove: removes k, returns the old entry
DashRemove(map, k) == [map |-> [map EXCEPT ![k] = None], old |-> map[k]]

InsertResultAlwaysOk(old) == "ok"
\* match on the Option returned by insert
InsertResult(old) == IF old # None THEN "in_use" ELSE "ok"

RemoveResultAlwaysOk(old) == "ok"
\* match on the Option returned by remove
RemoveResult(old) == IF old # None THEN "ok" ELSE "not_found"

InsertOps == {"add_service_at", "add_route_at"}
RemoveOps == {"remove_at", "remove_service", "remove_register"}

\* the latest call of a task: its arguments, the Option the map returned, the
\* Result returned to the caller; absent and seq record whether the key was absent
\* when the call took effect and the call's place in the order of effects
NoCall == [op |-> "none", r |-> Root, k |-> "a", T |-> 0, val |-> None, old |-> None,
           res |-> "none", absent |-> TRUE, seq |-> 0]

\* a call that inserts v at k of route r, by task t
Insert(t, op, r, k, T, v) ==
    /\ nops < MaxOps
    /\ LET x == DashInsert(routes[r], k, v) IN
        /\ routes' = [routes EXCEPT ![r] = x.map]
        /\ task' = [task EXCEPT ![t] = [op |-> op, r |-> r, k |-> k, T |-> T, val |-> v,
                                        old |-> x.old, res |-> InsertResult(x.old),
                                        absent |-> (DashGet(routes[r], k) = None),
                                        seq |-> nops + 1]]
    /\ nops' = nops + 1
    /\ UNCHANGED <<introVars, snowVars, pureVars>>

\* a call that removes k from route r, by task t
Remove(t, op, r, k, T) ==
    /\ nops < MaxOps
    /\ LET x == DashRemove(routes[r], k) IN
        /\ routes' = [routes EXCEPT ![r] = x.map]
        /\ task' = [task EXCEPT ![t] = [op |-> op, r |-> r, k |-> k, T |-> T, val |-> None,
                                        old |-> x.old, res |-> RemoveResult(x.old),
                                        absent |-> (DashGet(routes[r], k) = None),
                                        seq |-> nops + 1]]
    /\ nops' = nops + 1
    /\ UNCHANGED <<introVars, snowVars, pureVars>>

add_service_at(t, r, at, T) == Insert(t, "add_service_at", r, at, T, StService(T))

add_route_at(t, r, at, route) == Insert(t, "add_route_at", r, at, 0, StRoute(route))

remove_at(t, r, at) == Remove(t, "remove_at", r, at, 0)

RemoveServiceAtOther(T) == ENDPOINT(3 - T)
\* the key remove_service::<T> removes
RemoveServiceAt(T) == ENDPOINT(T)

remove_service(t, r, T) == Remove(t, "remove_service", r, RemoveServiceAt(T), T)

remove_register(t, r, T) == Remove(t, "remove_register", r, ENDPOINT(T), T)

AddServiceAtOther(T) == ENDPOINT(3 - T)
\* the key add_service::<T> passes to add_service_at
AddServiceAt(T) == ENDPOINT(T)

add_service(t, r, T) == Insert(t, "add_service", r, AddServiceAt(T), T, StService(T))

\* the types that implement Register, their RegisterEndpoint::ENDPOINT, and the
\* service their user-supplied callback adds: top_route.add_service::<S>(())
Registers == {1, 2}
RegisterEndpoint(R) == IF R = 1 THEN "a" ELSE "b"
CallbackService(R) == IF R = 1 THEN 2 ELSE 1

\* T::register(top_route, meta) on the routes rs: the routes after the callback, the
\* entry its insert replaced and its Result
Register(rs, top_route, R) ==
    LET S == CallbackService(R)
        x == DashInsert(rs[top_route], ENDPOINT(S), StService(S)) IN
    [routes |-> [rs EXCEPT ![top_route] = x.map], old |-> x.old,
     res |-> InsertResult(x.old)]

\* Route::default(): a route that did not exist before the call
RouteDefault(n) == 2 + n

RegisterIntoSelf(self, route) == self
\* the route register_route_at hands to the callback: the new route
RegisterInto(self, route) == route

\* register_route_at and register_route, by task t: the callback runs on the new
\* route, an error of the callback is returned before the link, the link is
\* add_route_at
RegisterRoute(t, op, r, at, R) ==
    /\ nops < MaxOps
    /\ LET route == RouteDefault(nops)
           cb == Register(routes, RegisterInto(r, route), R)
           x == DashInsert(cb.routes[r], at, StRoute(route))
           call == [op |-> op, r |-> r, k |-> at, T |-> R, val |-> StRoute(route),
                    old |-> x.old, res |-> InsertResult(x.old),
                    absent |-> (DashGet(routes[r], at) = None), seq |-> nops + 1] IN
       IF cb.res # "ok"
       THEN /\ routes' = cb.routes
            /\ task' = [task EXCEPT ![t] = [call EXCEPT !.old = cb.old, !.res = cb.res]]
       ELSE /\ routes' = [cb.routes EXCEPT ![r] = x.map]
            /\ task' = [task EXCEPT ![t] = call]
    /\ nops' = nops + 1
    /\ UNCHANGED <<introVars, snowVars, pureVars>>

register_route_at(t, r, at, R) == RegisterRoute(t, "register_route_at", r, at, R)

register_route(t, r, R) == RegisterRoute(t, "register_route", r, RegisterEndpoint(R), R)

\* register, by task t: the callback runs on the receiving route itself
register(t, r, R) ==
    /\ nops < MaxOps
    /\ LET cb == Register(routes, r, R)
           S == CallbackService(R) IN
        /\ routes' = cb.routes
        /\ task' = [task EXCEPT ![t] = [op |-> "register", r |-> r, k |-> ENDPOINT(S),
                                        T |-> R, val |-> StService(S), old |-> cb.old,
                                        res |-> cb.res,
                                        absent |-> (DashGet(routes[r], ENDPOINT(S)) = None),
                                        seq |-> nops + 1]]
    /\ nops' = nops + 1
    /\ UNCHANGED <<introVars, snowVars, pureVars>>

----------------------------------------------------------------------------
(* Initial states. *)

\* no macro expansion, no record and no value in the behaviours of the registry,
\* the introduction and the handshake; no call of static_switch
NotStarted == [phase |-> "none"]

\* introduce_static reads the path in a spawned task, introduce_static_unspawn inline
Variants == {"spawn", "unspawn"}

\* variant: the entry point called; pc: the place in the code; path: the received
\* path; id: the segments not yet consumed; map: the route being searched; f: the
\* handler found; err: the error of __introduce_inner_static; res: the Result of the
\* introduction; lookups: the number of map lookups made; sw: the outcome of
\* static_switch on the same path; before: the tasks whose Route call had returned
\* when the path was received
IntroIdle == [variant |-> "unspawn", pc |-> "accept", path |-> <<>>, id |-> <<>>,
              map |-> Root, f |-> 0, err |-> "none", res |-> "none", lookups |-> 0,
              sw |-> NotStarted, before |-> {}]

\* wire: the records the server side wrote, in order; broken: a write failed;
\* writes: records the dispatched handler tried to write
ChanInit == [wire |-> <<>>, broken |-> FALSE, writes |-> 0]

Peers == {1, 2}
Other(p) == 3 - p

NoFrame == [kind |-> "none", n |-> 0, key |-> "", re |-> ""]
NoSession == [i |-> "", r |-> ""]

\* pc: the place in new_with_params / initialize_*; round: draws made; local_num:
\* the last draw; role; rs: the frame installed as remote public key; re: the key
\* read_message took as the remote ephemeral; sess: the transport state (the two
\* ephemeral keys it was derived from); res: the Result; apps: records sent after
\* the handshake
PeerIdle == [pc |-> "draw", round |-> 0, local_num |-> 0, role |-> "none",
             rs |-> NoFrame, re |-> "", sess |-> NoSession, res |-> "none", apps |-> 0]

Init ==
    /\ routes = [r \in AllRoutes |-> EmptyRoute]
    /\ task = [t \in Tasks |-> NoCall]
    /\ nops = 0
    /\ intro = IntroIdle
    /\ chan = ChanInit
    /\ disp = <<>>
    /\ peer = [p \in Peers |-> PeerIdle]
    /\ net = [p \in Peers |-> <<>>]
    /\ svc = NotStarted
    /\ pkt = NotStarted
    /\ codec = NotStarted

Next ==
    \/ \E t \in Tasks, r \in Routes, k \in Keys, T \in Services : add_service_at(t, r, k, T)
    \/ \E t \in Tasks, r \in Routes, k \in Keys, s \in SubRoutes : add_route_at(t, r, k, s)
    \/ \E t \in Tasks, r \in Routes, k \in Keys : remove_at(t, r, k)
    \/ \E t \in Tasks, r \in Routes, T \in Services : remove_service(t, r, T)
    \/ \E t \in Tasks, r \in Routes, T \in Services : remove_register(t, r, T)

Spec == Init /\ [][Next]_vars

\* the calls by endpoint (add_service, remove_service) and the calls that register
\* a type (register, register_route, register_route_at), by two tasks
RegNext ==
    \/ \E t \in Tasks, r \in Routes, T \in Services : add_service(t, r, T)
    \/ \E t \in Tasks, r \in Routes, T \in Services : remove_service(t, r, T)
    \/ \E t \in Tasks, r \in Routes, k \in Keys, R \in Registers : register_route_at(t, r, k, R)
    \/ \E t \in Tasks, r \in Routes, R \in Registers : register_route(t, r, R)
    \/ \E t \in Tasks, r \in Routes, R \in Registers : register(t, r, R)

RegSpec == Init /\ [][RegNext]_vars

----------------------------------------------------------------------------
(* Paths.  A path is a string; it is modelled as its sequence of tokens, a     *)
(* token being a name or the separator "/".  Two names are never adjacent      *)
(* (they would be one longer name).                                            *)

Names == {"a", "b"}
Tokens == Names \cup {"/"}

IsPath(s) == \A i \in 1..(Len(s) - 1) : s[i] = "/" \/ s[i + 1] = "/"
Paths == {s \in UNION {[1..n -> Tokens] : n \in 0..MaxPathLen} : IsPath(s)}

RECURSIVE NormalComponents(_)
\* the names of a path in order, separators dropped
NormalComponents(s) ==
    IF s = <<>> THEN <<>>
    ELSE IF Head(s) = "/" THEN NormalComponents(Tail(s))
    ELSE <<Head(s)>> \o NormalComponents(Tail(s))

RECURSIVE SplitOnSlash(_)
\* a split on the separator that keeps the empty pieces
SplitOnSlash(s) ==
    IF s = <<>> THEN <<"">>
    ELSE IF Head(s) = "/" THEN <<"">> \o SplitOnSlash(Tail(s))
    ELSE IF Len(s) = 1 THEN <<Head(s)>>
    ELSE <<Head(s)>> \o SplitOnSlash(Tail(Tail(s)))

ComponentsKeepEmpty(s) == IF s = <<>> THEN <<>> ELSE SplitOnSlash(s)
\* Utf8Path::into_iter: the components of the path as strings.  A leading separator
\* is the root component "/"; repeated and trailing separators yield nothing.
Components(s) ==
    (IF s # <<>> /\ Head(s) = "/" THEN <<"/">> ELSE <<>>) \o NormalComponents(s)

----------------------------------------------------------------------------
(* The introduction protocol: introduce_static_unspawn, introduce_service_static *)
(* and __introduce_inner_static on the static root route.                         *)

\* Channel::send / Channel::tx of one record: the record reaches the wire unless the
\* transport fails; a failed transport stays failed
ChanWrite(c, rec, ok) ==
    IF ok /\ ~c.broken THEN [c EXCEPT !.wire = Append(@, rec)]
    ELSE [c EXCEPT !.broken = TRUE]

Written(c, ok) == ok /\ ~c.broken

\* Ctx::new(RouteRef::new_static(route))
context(route) == route

HandlerCtxOfMap(self, map) == context(map)
\* the Ctx handed to the handler: built from self before the walk, not from the
\* route in which the handler is found
HandlerCtx(self, map) == context(self)

EmptyPathErrNotFound == "not_found"
\* the error of an exhausted iterator at the first segment
EmptyPathErr == "invalid_data"

\* the error of a first segment that is not a key of the root
FirstAbsentErr == "invalid_data"

\* the error of a later segment that is missing or absent
WalkErr == "not_found"

OnServiceNoStatus == "dispatch"
\* what follows the match of a Storable::Service: the Found status is written
OnService == "tx_found"

AfterReceiveSpawnReturns(variant) == IF variant = "spawn" THEN "done" ELSE "inner"
\* what follows the receipt of the path in either variant: the call of
\* introduce_service_static
AfterReceive(variant) == "inner"

\* what the caller of the entry point holds: introduce_static returns () once the
\* task is spawned and the task's Result is dropped with its handle;
\* introduce_static_unspawn returns the Result of the introduction when it is over
AcceptorResult ==
    IF intro.variant = "spawn" THEN "unit"
    ELSE IF intro.pc = "done" THEN intro.res ELSE "none"

\* c.receive::<RouteKey>() returned the path
Receive(path) ==
    /\ intro.pc = "accept"
    /\ intro' = [intro EXCEPT !.pc = AfterReceive(intro.variant), !.path = path,
                              !.id = Components(path),
                              !.before = {t \in Tasks :
                                            task[t].res \notin {"none", "pending"}}]
    /\ UNCHANGED <<routeVars, chan, disp, snowVars, pureVars>>

\* c.receive::<RouteKey>() failed
ReceiveFail ==
    /\ intro.pc = "accept"
    /\ intro' = [intro EXCEPT !.pc = "done", !.res = "other"]
    /\ UNCHANGED <<routeVars, chan, disp, snowVars, pureVars>>

\* __introduce_inner_static up to the match on the first entry
LookupFirst ==
    /\ intro.pc = "inner"
    /\ IF intro.id = <<>>
       THEN intro' = [intro EXCEPT !.pc = "reply", !.err = EmptyPathErr]
       ELSE LET value == DashGet(routes[Root], Head(intro.id))
                looked == [intro EXCEPT !.id = Tail(@), !.lookups = @ + 1] IN
            intro' =
                IF value = None
                THEN [looked EXCEPT !.pc = "reply", !.err = FirstAbsentErr]
                ELSE IF value.kind = "route"
                THEN [looked EXCEPT !.pc = "walk", !.map = value.id]
                ELSE [looked EXCEPT !.pc = OnService, !.f = value.id]
    /\ UNCHANGED <<routeVars, chan, disp, snowVars, pureVars>>

\* one iteration of the loop over the sub-routes
Walk ==
    /\ intro.pc = "walk"
    /\ IF intro.id = <<>>
       THEN intro' = [intro EXCEPT !.pc = "reply", !.err = WalkErr]
       ELSE LET val == DashGet(routes[intro.map], Head(intro.id))
                looked == [intro EXCEPT !.id = Tail(@), !.lookups = @ + 1] IN
            intro' =
                IF val = None
                THEN [looked EXCEPT !.pc = "reply", !.err = WalkErr]
                ELSE IF val.kind = "route"
                THEN [looked EXCEPT !.map = val.id]
                ELSE [looked EXCEPT !.pc = OnService, !.f = val.id]
    /\ UNCHANGED <<routeVars, chan, disp, snowVars, pureVars>>

\* chan.tx(Status::Found).await.ok(): the result of the write is dropped
TxFound ==
    /\ intro.pc = "tx_found"
    /\ \E ok \in BOOLEAN : chan' = ChanWrite(chan, "Found", ok)
    /\ intro' = [intro EXCEPT !.pc = "dispatch"]
    /\ UNCHANGED <<routeVars, disp, snowVars, pureVars>>

DispatchFallsThrough == "walk"
\* what follows the call of the handler: return Ok(())
DispatchReturn == "done"

\* f(chan.bare(), ctx); return Ok(())
Dispatch ==
    /\ intro.pc = "dispatch"
    /\ disp' = Append(disp, [f |-> intro.f, ctx |-> HandlerCtx(Root, intro.map),
                             found_in |-> intro.map])
    /\ intro' = [intro EXCEPT !.pc = DispatchReturn, !.res = "ok"]
    /\ UNCHANGED <<routeVars, chan, snowVars, pureVars>>

\* introduce_service_static on Err((e, c)): chan.send(Status::NotFound).await?; err!((e))?
ReplyNotFound ==
    /\ intro.pc = "reply"
    /\ \E ok \in BOOLEAN :
        /\ chan' = ChanWrite(chan, "NotFound", ok)
        /\ intro' = [intro EXCEPT !.pc = "done",
                                  !.res = IF Written(chan, ok) THEN intro.err ELSE "io"]
    /\ UNCHANGED <<routeVars, disp, snowVars, pureVars>>

\* the dispatched handler, which owns the channel, writes an application record
HandlerWrite ==
    /\ disp # <<>>
    /\ chan.writes < MaxHandlerWrites
    /\ \E ok \in BOOLEAN :
        chan' = [ChanWrite(chan, "data", ok) EXCEPT !.writes = @ + 1]
    /\ UNCHANGED <<routeVars, intro, disp, snowVars, pureVars>>

SwitchWalkErrInvalid == "invalid_data"
\* the error of static_switch for a later segment that is missing or absent
SwitchWalkErr == "not_found"

RECURSIVE SwitchLoop(_, _, _)
\* the loop of static_switch over the sub-routes, from route map with the segments
\* id left: the handler called (0 when none) and the Result
SwitchLoop(rs, map, id) ==
    IF id = <<>> THEN [f |-> 0, res |-> SwitchWalkErr]
    ELSE LET val == DashGet(rs[map], Head(id)) IN
         IF val = None THEN [f |-> 0, res |-> SwitchWalkErr]
         ELSE IF val.kind = "route" THEN SwitchLoop(rs, val.id, Tail(id))
         ELSE [f |-> val.id, res |-> "ok"]

\* static_switch(id, chan) on route self: f: the handler called with the channel (0
\* when none); ctx: the Ctx handed to it; res: the Result; wire: the records written
\* on the channel before the handler has it or the error returns it
static_switch(rs, self, id) ==
    LET segs == Components(id)
        value == DashGet(rs[self], Head(segs))
        x == IF segs = <<>> THEN [f |-> 0, res |-> "invalid_data"]
             ELSE IF value = None THEN [f |-> 0, res |-> "invalid_data"]
             ELSE IF value.kind = "route" THEN SwitchLoop(rs, value.id, Tail(segs))
             ELSE [f |-> value.id, res |-> "ok"] IN
    [phase |-> "returned", f |-> x.f, ctx |-> context(self), res |-> x.res,
     wire |-> <<>>]

\* static_switch is called with the path and the registry of the introduction
Switch ==
    /\ intro.pc = "done" /\ intro.res # "other"
    /\ intro.sw = NotStarted
    /\ intro' = [intro EXCEPT !.sw = static_switch(routes, Root, intro.path)]
    /\ UNCHANGED <<routeVars, chan, disp, snowVars, pureVars>>

\* every registry the Route calls can build, either entry point
IntroInit ==
    /\ routes \in [Routes -> InnerRoute]
    /\ task = [t \in Tasks |-> NoCall]
    /\ nops = 0
    /\ intro \in {[IntroIdle EXCEPT !.variant = v] : v \in Variants}
    /\ chan = ChanInit
    /\ disp = <<>>
    /\ peer = [p \in Peers |-> PeerIdle]
    /\ net = [p \in Peers |-> <<>>]
    /\ svc = NotStarted
    /\ pkt = NotStarted
    /\ codec = NotStarted

IntroNext ==
    \/ \E path \in Paths : Receive(path)
    \/ ReceiveFail
    \/ LookupFirst
    \/ Walk
    \/ TxFound
    \/ Dispatch
    \/ ReplyNotFound
    \/ HandlerWrite
    \/ Switch

IntroSpec == IntroInit /\ [][IntroNext]_vars

----------------------------------------------------------------------------
(* An introduction on the root while tasks call add_service_at, add_route_at and *)
(* remove_at.  DashMap::get returns a guard that holds the read lock of the      *)
(* entry's shard until it is dropped; insert and remove take the write lock of   *)
(* the shard and wait while a guard of it is alive.  The lock is modelled per    *)
(* key: a shard holds one key or more, so a call waits at least when its key is  *)
(* guarded.                                                                      *)

NoGuards == {}
\* the guards alive at the introduction's position: `value`, the entry of the
\* first segment in the root, from its lookup until __introduce_inner_static
\* returns; `val`, the entry of the Service matched in a sub-route, from its lookup
\* until the return, hence across the await of chan.tx(Status::Found)
Guards ==
    LET segments == Components(intro.path)
        consumed == Len(segments) - Len(intro.id) IN
    IF intro.pc \in {"walk", "tx_found", "dispatch"}
    THEN {<<Root, segments[1]>>}
         \cup (IF intro.pc # "walk" /\ consumed > 1
               THEN {<<intro.map, segments[consumed]>>} ELSE {})
    ELSE {}

\* task t calls an insert or a remove: the call is pending until it has the lock
CallBegin(t, op, r, k, T, v) ==
    /\ nops < MaxConcOps
    /\ task[t].res # "pending"
    /\ task' = [task EXCEPT ![t] = [op |-> op, r |-> r, k |-> k, T |-> T, val |-> v,
                                    old |-> None, res |-> "pending", absent |-> TRUE,
                                    seq |-> 0]]
    /\ nops' = nops + 1
    /\ UNCHANGED <<routes, introVars, snowVars, pureVars>>

\* the pending call of t takes the write lock, which no guard of the key allows
\* before it is dropped, changes the map and returns
CallEnd(t) ==
    LET c == task[t] IN
    /\ c.res = "pending"
    /\ <<c.r, c.k>> \notin Guards
    /\ LET x == IF c.op \in InsertOps THEN DashInsert(routes[c.r], c.k, c.val)
                ELSE DashRemove(routes[c.r], c.k) IN
        /\ routes' = [routes EXCEPT ![c.r] = x.map]
        /\ task' = [task EXCEPT ![t] =
                       [c EXCEPT !.old = x.old,
                                 !.res = IF c.op \in InsertOps THEN InsertResult(x.old)
                                         ELSE RemoveResult(x.old),
                                 !.absent = (DashGet(routes[c.r], c.k) = None),
                                 !.seq = nops]]
    /\ UNCHANGED <<nops, introVars, snowVars, pureVars>>

\* the registry when the introduction starts: the root holds the handler of service
\* 1 at "a" and a sub-route at "b", the sub-route holds the handler of service 2
ConcInit ==
    /\ routes = [r \in Routes |->
                    IF r = Root THEN [EmptyRoute EXCEPT !["a"] = StService(1),
                                                        !["b"] = StRoute(1)]
                    ELSE [EmptyRoute EXCEPT !["a"] = StService(2)]]
    /\ task = [t \in Tasks |-> NoCall]
    /\ nops = 0
    /\ intro = IntroIdle
    /\ chan = ChanInit
    /\ disp = <<>>
    /\ peer = [p \in Peers |-> PeerIdle]
    /\ net = [p \in Peers |-> <<>>]
    /\ svc = NotStarted
    /\ pkt = NotStarted
    /\ codec = NotStarted

ConcNext ==
    \/ \E path \in {s \in Paths : Len(s) <= MaxConcPathLen} : Receive(path)
    \/ ReceiveFail
    \/ LookupFirst
    \/ Walk
    \/ TxFound
    \/ Dispatch
    \/ ReplyNotFound
    \/ HandlerWrite
    \/ \E t \in Tasks, r \in Routes, k \in Keys, T \in Services :
          CallBegin(t, "add_service_at", r, k, T, StService(T))
    \/ \E t \in Tasks, r \in Routes, k \in Keys, s \in SubRoutes :
          CallBegin(t, "add_route_at", r, k, 0, StRoute(s))
    \/ \E t \in Tasks, r \in Routes, k \in Keys :
          CallBegin(t, "remove_at", r, k, 0, None)
    \/ \E t \in Tasks : CallEnd(t)

ConcSpec == ConcInit /\ [][ConcNext]_vars

----------------------------------------------------------------------------
(* The symmetric handshake: Snow::new_with_params on both ends of a reliable,    *)
(* ordered channel.  A frame is one Bincode record; a u64 is one kind of frame   *)
(* and every Vec<u8> (public key, handshake message, transport record) another. *)

Draws == 0..MaxDraw

\* the keys of peer p: its generated static public key and its handshake ephemeral
PublicKey(p) == IF p = 1 THEN "s1" ELSE "s2"
Ephemeral(p) == IF p = 1 THEN "e1" ELSE "e2"

NumFrame(n) == [kind |-> "num", n |-> n, key |-> "", re |-> ""]
\* a Vec<u8> frame: its content, the key it carries and, for the responder's
\* handshake reply, the remote ephemeral it was computed against
VecFrame(kind, key, re) == [kind |-> kind, n |-> 0, key |-> key, re |-> re]

\* chan.send(x, &Bincode) by p: the frame joins the FIFO to the other peer
Send(p, frame) == [net EXCEPT ![Other(p)] = Append(@, frame)]
\* chan.receive(&Bincode) by p removes the head of its FIFO
Recv(p) == [net EXCEPT ![p] = Tail(@)]

ShouldInitSmaller(local_num, peer_num) == local_num < peer_num
\* break local_num > peer_num
ShouldInit(local_num, peer_num) == local_num > peer_num

\* let local_num = rand::random::<u64>(); chan.send(local_num, &Bincode).await?
FlipSend(p, n) ==
    /\ peer[p].pc = "draw"
    /\ peer[p].round < MaxRounds
    /\ peer' = [peer EXCEPT ![p] = [@ EXCEPT !.pc = "flip_recv", !.local_num = n,
                                              !.round = @ + 1]]
    /\ net' = Send(p, NumFrame(n))
    /\ UNCHANGED <<routeVars, introVars, pureVars>>

\* let peer_num: u64 = chan.receive(&Bincode).await?; the comparison of the draws
FlipRecv(p) ==
    /\ peer[p].pc = "flip_recv"
    /\ net[p] # <<>>
    /\ LET peer_num == Head(net[p]).n IN
       peer' = [peer EXCEPT ![p] =
                   IF peer[p].local_num = peer_num THEN [@ EXCEPT !.pc = "draw"]
                   ELSE IF ShouldInit(peer[p].local_num, peer_num)
                   THEN [@ EXCEPT !.pc = "i_send_key", !.role = "initiator"]
                   ELSE [@ EXCEPT !.pc = "r_recv_msg", !.role = "responder"]]
    /\ net' = Recv(p)
    /\ UNCHANGED <<routeVars, introVars, pureVars>>

\* initialize_initiator: generate_keypair; chan.send(keypair.public)
InitSendKey(p) ==
    /\ peer[p].pc = "i_send_key"
    /\ peer' = [peer EXCEPT ![p] = [@ EXCEPT !.pc = "i_recv_key"]]
    /\ net' = Send(p, VecFrame("public_key", PublicKey(p), ""))
    /\ UNCHANGED <<routeVars, introVars, pureVars>>

\* initialize_initiator: receive peer_public_key; remote_public_key; build_initiator.
\* A frame that is not a public key is longer than a key: the build takes it or
\* fails on its length.
InitRecvKey(p) ==
    /\ peer[p].pc = "i_recv_key"
    /\ net[p] # <<>>
    /\ \E accept \in BOOLEAN :
        LET peer_public_key == Head(net[p]) IN
        peer' = [peer EXCEPT ![p] =
                    IF peer_public_key.kind = "public_key" \/ accept
                    THEN [@ EXCEPT !.pc = "i_send_msg", !.rs = peer_public_key]
                    ELSE [@ EXCEPT !.pc = "done", !.res = "other"]]
    /\ net' = Recv(p)
    /\ UNCHANGED <<routeVars, introVars, pureVars>>

\* initialize_initiator: handshake.write_message(&[], &mut buf); chan.send(&buf[..len])
InitSendMsg(p) ==
    /\ peer[p].pc = "i_send_msg"
    /\ peer' = [peer EXCEPT ![p] = [@ EXCEPT !.pc = "i_recv_msg"]]
    /\ net' = Send(p, VecFrame("msg1", Ephemeral(p), ""))
    /\ UNCHANGED <<routeVars, introVars, pureVars>>

\* initialize_initiator: receive message; handshake.read_message; transport mode.
\* Only the responder's reply to this initiator's ephemeral authenticates.
InitRecvMsg(p) ==
    /\ peer[p].pc = "i_recv_msg"
    /\ net[p] # <<>>
    /\ LET message == Head(net[p]) IN
       peer' = [peer EXCEPT ![p] =
                   IF message.kind = "msg2" /\ message.re = Ephemeral(p)
                   THEN [@ EXCEPT !.pc = "done", !.res = "session", !.re = message.key,
                                  !.sess = [i |-> Ephemeral(p), r |-> message.key]]
                   ELSE [@ EXCEPT !.pc = "done", !.res = "other"]]
    /\ net' = Recv(p)
    /\ UNCHANGED <<routeVars, introVars, pureVars>>

\* initialize_responder: receive message; build_responder; handshake.read_message.
\* The first message of the pattern is a bare key: any Vec<u8> of a key's length or
\* more is read as the initiator's ephemeral.
RespRecvMsg(p) ==
    /\ peer[p].pc = "r_recv_msg"
    /\ net[p] # <<>>
    /\ LET message == Head(net[p]) IN
       peer' = [peer EXCEPT ![p] = [@ EXCEPT !.pc = "r_send_msg", !.re = message.key]]
    /\ net' = Recv(p)
    /\ UNCHANGED <<routeVars, introVars, pureVars>>

\* initialize_responder: handshake.write_message; chan.send; transport mode
RespSendMsg(p) ==
    /\ peer[p].pc = "r_send_msg"
    /\ peer' = [peer EXCEPT ![p] = [@ EXCEPT !.pc = "done", !.res = "session",
                                    !.sess = [i |-> peer[p].re, r |-> Ephemeral(p)]]]
    /\ net' = Send(p, VecFrame("msg2", Ephemeral(p), peer[p].re))
    /\ UNCHANGED <<routeVars, introVars, pureVars>>

\* a peer whose constructor returned a session sends an encrypted application record
TransportSend(p) ==
    /\ peer[p].pc = "done" /\ peer[p].res = "session"
    /\ peer[p].apps < MaxAppFrames
    /\ peer' = [peer EXCEPT ![p] = [@ EXCEPT !.apps = @ + 1]]
    /\ net' = Send(p, VecFrame("record", "", ""))
    /\ UNCHANGED <<routeVars, introVars, pureVars>>

SnowNext ==
    \/ \E p \in Peers, n \in Draws : FlipSend(p, n)
    \/ \E p \in Peers : FlipRecv(p)
    \/ \E p \in Peers : InitSendKey(p)
    \/ \E p \in Peers : InitRecvKey(p)
    \/ \E p \in Peers : InitSendMsg(p)
    \/ \E p \in Peers : InitRecvMsg(p)
    \/ \E p \in Peers : RespRecvMsg(p)
    \/ \E p \in Peers : RespSendMsg(p)
    \/ \E p \in Peers : TransportSend(p)

SnowSpec == Init /\ [][SnowNext]_vars

----------------------------------------------------------------------------
(* The #[service] attribute (canary-macro/src/lib.rs): from the parameters of    *)
(* the declared function to the Meta type and the closure of the generated       *)
(* impl Service.                                                                 *)

\* parameters in one declaration
MaxParams == 3

\* the registry, the introduction and the handshake at rest
AtRest ==
    /\ routes = [r \in AllRoutes |-> EmptyRoute]
    /\ task = [t \in Tasks |-> NoCall]
    /\ nops = 0
    /\ intro = IntroIdle
    /\ chan = ChanInit
    /\ disp = <<>>
    /\ peer = [p \in Peers |-> PeerIdle]
    /\ net = [p \in Peers |-> <<>>]

ParamTypes == {"Arc<AtomicU64>", "Channel", "Ctx"}
\* the i-th typed parameter: pat.mutability, pat.ident, pat.ty
Param(i, ty, mutability) ==
    [mutability |-> mutability, ident |-> <<"p1", "p2", "p3", "p4">>[i], ty |-> ty]
\* item.sig.inputs: every list of up to MaxParams typed parameters
Inputs ==
    UNION {{[i \in 1..n |-> Param(i, tys[i], muts[i])] :
               tys \in [1..n -> ParamTypes], muts \in [1..n -> BOOLEAN]} : n \in 0..MaxParams}

\* the initial values of the three bindings
DefaultChan == [mutability |-> FALSE, ident |-> "__canary_inner_channel", ty |-> "::canary::Channel"]
DefaultMeta == [mutability |-> FALSE, ident |-> "__canary_inner_meta", ty |-> "()"]
DefaultCtx == [mutability |-> FALSE, ident |-> "__canary_inner_context", ty |-> "::canary::Ctx"]

\* the loop over item.sig.inputs: counter 0 assigns the chan binding, 1 the meta
\* binding, 2 the ctx binding, later parameters are ignored
LoopBindings(inputs) ==
    [chan |-> IF Len(inputs) >= 1 THEN inputs[1] ELSE DefaultChan,
     meta |-> IF Len(inputs) >= 2 THEN inputs[2] ELSE DefaultMeta,
     ctx |-> IF Len(inputs) >= 3 THEN inputs[3] ELSE DefaultCtx]

\* the value of the block, the tuple (chan, ctx, meta), destructured by the pattern
\* (chan, meta, ctx) of the let
Bindings(inputs) ==
    LET b == LoopBindings(inputs)
        tuple == <<b.chan, b.ctx, b.meta>> IN
    [chan |-> tuple[1], meta |-> tuple[2], ctx |-> tuple[3]]

\* the generated impl Service: type Meta, the parameter of fn service, and the
\* closure handed to run_metadata, whose parameters take the metadata, the channel
\* and the context in that order
service(inputs) ==
    LET b == Bindings(inputs) IN
    [Meta |-> b.meta.ty,
     service_param |-> b.meta.ident,
     closure |-> <<b.meta, b.chan, b.ctx>>]

\* the attribute is applied to a declaration
Expand ==
    /\ svc.phase = "declared"
    /\ svc' = [svc EXCEPT !.phase = "expanded", !.item = service(svc.inputs)]
    /\ UNCHANGED <<routeVars, introVars, snowVars, pkt, codec>>

MacroInit ==
    /\ AtRest
    /\ svc \in {[phase |-> "declared", inputs |-> inputs, item |-> service(<<>>)] :
                   inputs \in Inputs}
    /\ pkt = NotStarted
    /\ codec = NotStarted

MacroSpec == MacroInit /\ [][Expand]_vars

----------------------------------------------------------------------------
(* Transport encryption: Snow::encrypt_packets and Snow::decrypt.  A buffer is a *)
(* sequence of segments, a segment being a run of bytes: bytes from..from+len-1  *)
(* of the application buffer ("plain"), their encryption under a key and a nonce *)
(* ("ct"), the 16-byte tag that authenticates `over` bytes of payload starting   *)
(* at from ("tag"), or bytes of value zero ("zero").                             *)

PACKET_LEN == 65519
\* the AEAD tag that write_message appends to the payload
TagLen == 16

\* whole packets around which the lengths of the application buffer are taken
MaxPackets == 3
\* distance of a buffer's length from a whole number of packets
MaxSlack == 2

\* the transport states: a session is the pair of keys its handshake derived
SessionKeys == {1, 2}

Seg(kind, key, nonce, from, len, over) ==
    [kind |-> kind, key |-> key, nonce |-> nonce, from |-> from, len |-> len, over |-> over]

\* n bytes of the application buffer starting at its byte from
Plain(from, n) == IF n = 0 THEN <<>> ELSE <<Seg("plain", 0, 0, from, n, 0)>>
\* vec![0u8; n]
Zeros(n) == IF n = 0 THEN <<>> ELSE <<Seg("zero", 0, 0, 0, n, 0)>>

RECURSIVE BufLen(_)
\* buf.len()
BufLen(b) == IF b = <<>> THEN 0 ELSE Head(b).len + BufLen(Tail(b))

RECURSIVE Take(_, _)
\* the first n bytes of a buffer (all of it when it is shorter)
Take(b, n) ==
    IF b = <<>> \/ n = 0 THEN <<>>
    ELSE IF Head(b).len <= n THEN <<Head(b)>> \o Take(Tail(b), n - Head(b).len)
    ELSE <<[Head(b) EXCEPT !.len = n]>>

RECURSIVE Drop(_, _)
\* a buffer without its first n bytes
Drop(b, n) ==
    IF b = <<>> \/ n = 0 THEN b
    ELSE IF Head(b).len <= n THEN Drop(Tail(b), n - Head(b).len)
    ELSE <<[Head(b) EXCEPT !.len = @ - n,
                           !.from = IF Head(b).kind \in {"plain", "ct"} THEN @ + n ELSE @]>>
         \o Tail(b)

RECURSIVE Chunks(_, _)
\* slice::chunks(size): consecutive pieces of size bytes, the last one shorter when
\* the length is no multiple of size, none for an empty buffer
Chunks(b, size) ==
    IF b = <<>> THEN <<>> ELSE <<Take(b, size)>> \o Chunks(Drop(b, size), size)

RECURSIVE Canon(_)
\* the bytes of a buffer whatever its division into segments: adjacent segments
\* that continue each other are one run
Canon(b) ==
    IF Len(b) <= 1 THEN b
    ELSE LET x == b[1]
             y == b[2] IN
         IF x.kind = y.kind /\ x.key = y.key /\ x.nonce = y.nonce
            /\ ( (x.kind \in {"plain", "ct"} /\ x.from + x.len = y.from)
                 \/ x.kind = "zero" )
         THEN Canon(<<[x EXCEPT !.len = x.len + y.len]>> \o Tail(Tail(b)))
         ELSE <<x>> \o Canon(Tail(b))

\* the encryption of a payload and the tag over it
Cipher(key, nonce, payload) ==
    [i \in 1..Len(payload) |-> [payload[i] EXCEPT !.kind = "ct", !.key = key,
                                                  !.nonce = nonce]]
TagOf(key, nonce, payload) ==
    Seg("tag", key, nonce, IF payload = <<>> THEN 0 ELSE Head(payload).from, TagLen,
        BufLen(payload))

\* what a ciphertext deciphers to
Decipher(ct) == [i \in 1..Len(ct) |-> [ct[i] EXCEPT !.kind = "plain", !.key = 0, !.nonce = 0]]

\* a Result: the error of a kind, or Ok of a byte vector
Failed(kind) == [ok |-> FALSE, err |-> kind, bytes |-> <<>>]
Done(bytes) == [ok |-> TRUE, err |-> "none", bytes |-> bytes]

\* self.transport.write_message(nonce, buf, &mut msg): payload and tag, an error
\* when the message would not fit the buffer msg
WriteMessage(key, nonce, payload, msglen) ==
    IF BufLen(payload) + TagLen > msglen THEN Failed("invalid_data")
    ELSE Done(Cipher(key, nonce, payload) \o <<TagOf(key, nonce, payload)>>)

\* encrypt_packet: the message buffer has buf.len() + 16 bytes
encrypt_packet(key, buf) == WriteMessage(key, 0, buf, BufLen(buf) + TagLen)

RECURSIVE EncryptAll(_, _)
\* the loop of encrypt_packets over the chunks: the packets, or the first error
EncryptAll(key, chunks) ==
    IF chunks = <<>> THEN [ok |-> TRUE, err |-> "none", packets |-> <<>>]
    ELSE LET first == encrypt_packet(key, Head(chunks))
             rest == EncryptAll(key, Tail(chunks)) IN
         IF ~first.ok THEN [ok |-> FALSE, err |-> first.err, packets |-> <<>>]
         ELSE IF ~rest.ok THEN rest
         ELSE [rest EXCEPT !.packets = <<first.bytes>> \o @]

RECURSIVE Concat(_)
\* total.append(&mut buf) for every buffer of a list, in order
Concat(bufs) == IF bufs = <<>> THEN <<>> ELSE Head(bufs) \o Concat(Tail(bufs))

\* self.transport.read_message(nonce, buf, &mut message) on message = vec![0u8;
\* buf.len()]: the buffer message afterwards.  The plaintext is written at its
\* start and the bytes after it keep their value; the length read_message returns
\* is not used.
ReadMessage(key, nonce, buf) ==
    IF BufLen(buf) < TagLen THEN Failed("other")
    ELSE LET payload == Take(buf, BufLen(buf) - TagLen)
             tag == Drop(buf, BufLen(buf) - TagLen) IN
         IF /\ \A i \in 1..Len(payload) :
                  payload[i].kind = "ct" /\ payload[i].key = key
                  /\ payload[i].nonce = nonce
            /\ tag = <<TagOf(key, nonce, payload)>>
         THEN Done(Decipher(payload) \o Zeros(BufLen(buf) - BufLen(payload)))
         ELSE Failed("other")

MessageLenNoTag == PACKET_LEN
\* the size of the chunks of decrypt: PACKET_LEN as usize + 16
MessageLen == PACKET_LEN + TagLen

RECURSIVE DecryptAllPartial(_, _)
DecryptAllPartial(key, chunks) ==
    IF chunks = <<>> THEN Done(<<>>)
    ELSE LET first == ReadMessage(key, 0, Head(chunks))
             rest == DecryptAllPartial(key, Tail(chunks)) IN
         IF ~first.ok THEN first ELSE [rest EXCEPT !.bytes = first.bytes \o @]

RECURSIVE DecryptAll(_, _)
\* the loop of decrypt over the chunks: the bytes appended, or the first error
DecryptAll(key, chunks) ==
    IF chunks = <<>> THEN Done(<<>>)
    ELSE LET first == ReadMessage(key, 0, Head(chunks))
             rest == DecryptAll(key, Tail(chunks)) IN
         IF ~first.ok THEN first
         ELSE IF ~rest.ok THEN rest
         ELSE Done(first.bytes \o rest.bytes)

\* the lengths of the application buffer: around every whole number of packets up
\* to MaxPackets, and 200 KiB
BufLens ==
    {n \in {j * PACKET_LEN + d : j \in 0..MaxPackets, d \in (0 - MaxSlack)..MaxSlack} :
        n >= 0} \cup {204800}

\* encrypt_packets(buf) by the sender
Encrypt ==
    /\ pkt.phase = "plain"
    /\ LET e == EncryptAll(pkt.key, Chunks(pkt.buf, PACKET_LEN)) IN
       pkt' = [pkt EXCEPT !.phase = "encrypted", !.packets = e.packets,
                          !.total = Concat(e.packets),
                          !.res = IF e.ok THEN "ok" ELSE e.err]
    /\ UNCHANGED <<routeVars, introVars, snowVars, svc, codec>>

\* the record reaches the receiver damaged: its last bytes are missing, or the bytes
\* of one run of it (the payload or the tag of a packet) are not the ones sent
Corrupt ==
    /\ pkt.phase = "encrypted" /\ pkt.res = "ok"
    /\ \/ \E cut \in {1, TagLen, TagLen + 1} :
            /\ cut <= BufLen(pkt.total)
            /\ pkt' = [pkt EXCEPT !.phase = "corrupted",
                                  !.total = Take(@, BufLen(@) - cut)]
       \/ \E i \in 1..Len(pkt.total) :
            pkt' = [pkt EXCEPT !.phase = "corrupted", !.total[i].kind = "forged"]
    /\ UNCHANGED <<routeVars, introVars, snowVars, svc, codec>>

\* decrypt(total) by the receiver of the record, with the session's key
Decrypt ==
    /\ pkt.phase \in {"encrypted", "corrupted"} /\ pkt.res = "ok"
    /\ LET pieces == Chunks(pkt.total, MessageLen)
           d == DecryptAll(pkt.key, pieces) IN
       pkt' = [pkt EXCEPT !.phase = IF pkt.phase = "encrypted" THEN "decrypted"
                                    ELSE "decrypted_corrupt",
                          !.pieces = pieces, !.bytes = d.bytes,
                          !.res = IF d.ok THEN "ok" ELSE d.err]
    /\ UNCHANGED <<routeVars, introVars, snowVars, svc, codec>>

CryptInit ==
    /\ AtRest
    /\ svc = NotStarted
    /\ pkt \in {[phase |-> "plain", key |-> k, buf |-> Plain(0, n), packets |-> <<>>,
                 total |-> <<>>, pieces |-> <<>>, bytes |-> <<>>, res |-> "none"] :
                   k \in SessionKeys, n \in BufLens}
    /\ codec = NotStarted

CryptSpec == CryptInit /\ [][Encrypt \/ Corrupt \/ Decrypt]_vars

----------------------------------------------------------------------------
(* Serialization (src/serialization/formats.rs): the Format enum and the four    *)
(* codecs.  Bytes are numbers 0..255; a value is a u32, a string, an f64 or a    *)
(* struct with one u32 field named a; deserialize is directed by the type T.     *)

\* characters in a string value
MaxStrLen == 2

Nums == {0, 1, 127, 128, 250, 251, 300, 65536}
Floats == {"1.5", "inf"}

\* a value of type ty: the number n, the string s or the float x
Val(ty, n, str, x) == [ty |-> ty, n |-> n, s |-> str, x |-> x]
U32(n) == Val("u32", n, <<>>, "none")
Doc(n) == Val("doc", n, <<>>, "none")
\* the values of the serializable types; the strings are made of x and y
Values ==
    {U32(n) : n \in Nums} \cup {Doc(n) : n \in Nums}
        \cup {Val("str", 0, str, "none") :
                 str \in UNION {[1..n -> {120, 121}] : n \in 0..MaxStrLen}}
        \cup {Val("f64", 0, <<>>, x) : x \in Floats}

\* Ok(value), and the error of or_else(|e| err!((invalid_data, e)))
Decoded(v) == [ok |-> TRUE, err |-> "none", val |-> v]
InvalidData == Failed("invalid_data")

RECURSIVE LE(_, _)
\* the k low bytes of n, least significant first
LE(n, k) == IF k = 0 THEN <<>> ELSE <<n % 256>> \o LE(n \div 256, k - 1)
RECURSIVE FromLE(_)
FromLE(b) == IF b = <<>> THEN 0 ELSE Head(b) + 256 * FromLE(Tail(b))

\* the IEEE 754 bytes of an f64, least significant first
FloatLE(x) == IF x = "1.5" THEN <<0, 0, 0, 0, 0, 0, 248, 63>> ELSE <<0, 0, 0, 0, 0, 0, 240, 127>>
FloatOfLE(b) ==
    IF \E x \in Floats : FloatLE(x) = b
    THEN Decoded(Val("f64", 0, <<>>, CHOOSE x \in Floats : FloatLE(x) = b)) ELSE InvalidData

\* bincode::DefaultOptions: integers in bincode's variable-length encoding
BincodeVarint(n) ==
    IF n < 251 THEN <<n>>
    ELSE IF n < 65536 THEN <<251>> \o LE(n, 2)
    ELSE <<252>> \o LE(n, 4)
\* the number at the start of b and the bytes it takes; size 0 when there is none
BincodeReadVarint(b) ==
    IF b = <<>> THEN [n |-> 0, size |-> 0]
    ELSE IF Head(b) < 251 THEN [n |-> Head(b), size |-> 1]
    ELSE IF Head(b) = 251 /\ Len(b) >= 3 THEN [n |-> FromLE(SubSeq(b, 2, 3)), size |-> 3]
    ELSE IF Head(b) = 252 /\ Len(b) >= 5 THEN [n |-> FromLE(SubSeq(b, 2, 5)), size |-> 5]
    ELSE [n |-> 0, size |-> 0]

\* impl SendFormat for Bincode
BincodeSerialize(v) ==
    Done(CASE v.ty = "u32" -> BincodeVarint(v.n)
              [] v.ty = "str" -> BincodeVarint(Len(v.s)) \o v.s
              [] v.ty = "f64" -> FloatLE(v.x)
              [] v.ty = "doc" -> BincodeVarint(v.n))
\* impl ReadFormat for Bincode; bytes after the value are allowed
BincodeDeserialize(ty, b) ==
    LET r == BincodeReadVarint(b) IN
    CASE ty = "u32" -> IF r.size = 0 THEN InvalidData ELSE Decoded(U32(r.n))
      [] ty = "doc" -> IF r.size = 0 THEN InvalidData ELSE Decoded(Doc(r.n))
      [] ty = "str" -> IF r.size = 0 \/ Len(b) < r.size + r.n THEN InvalidData
                       ELSE Decoded(Val("str", 0, SubSeq(b, r.size + 1, r.size + r.n), "none"))
      [] ty = "f64" -> IF Len(b) < 8 THEN InvalidData ELSE FloatOfLE(SubSeq(b, 1, 8))

RECURSIVE PostcardVarint(_)
\* postcard's varint: seven bits a byte, the high bit set on all but the last
PostcardVarint(n) ==
    IF n < 128 THEN <<n>> ELSE <<128 + (n % 128)>> \o PostcardVarint(n \div 128)
RECURSIVE PostcardReadVarint(_)
PostcardReadVarint(b) ==
    IF b = <<>> THEN [n |-> 0, size |-> 0]
    ELSE IF Head(b) < 128 THEN [n |-> Head(b), size |-> 1]
    ELSE LET r == PostcardReadVarint(Tail(b)) IN
         IF r.size = 0 THEN r ELSE [n |-> Head(b) - 128 + 128 * r.n, size |-> r.size + 1]

\* impl SendFormat for Postcard
PostcardSerialize(v) ==
    Done(CASE v.ty = "u32" -> PostcardVarint(v.n)
              [] v.ty = "str" -> PostcardVarint(Len(v.s)) \o v.s
              [] v.ty = "f64" -> FloatLE(v.x)
              [] v.ty = "doc" -> PostcardVarint(v.n))
\* impl ReadFormat for Postcard
PostcardDeserialize(ty, b) ==
    LET r == PostcardReadVarint(b) IN
    CASE ty = "u32" -> IF r.size = 0 THEN InvalidData ELSE Decoded(U32(r.n))
      [] ty = "doc" -> IF r.size = 0 THEN InvalidData ELSE Decoded(Doc(r.n))
      [] ty = "str" -> IF r.size = 0 \/ Len(b) < r.size + r.n THEN InvalidData
                       ELSE Decoded(Val("str", 0, SubSeq(b, r.size + 1, r.size + r.n), "none"))
      [] ty = "f64" -> IF Len(b) < 8 THEN InvalidData ELSE FloatOfLE(SubSeq(b, 1, 8))

RECURSIVE Decimal(_)
\* the decimal digits of n in ASCII
Decimal(n) == IF n < 10 THEN <<48 + n>> ELSE Decimal(n \div 10) \o <<48 + (n % 10)>>
IsDecimal(b) == b # <<>> /\ \A i \in 1..Len(b) : b[i] \in 48..57
RECURSIVE FromDecimal(_)
FromDecimal(b) ==
    IF b = <<>> THEN 0 ELSE 10 * FromDecimal(SubSeq(b, 1, Len(b) - 1)) + (b[Len(b)] - 48)

\* the JSON text before the number of {"a":n}
JsonDocOpen == <<123, 34, 97, 34, 58>>

\* impl SendFormat for Json: serde_json writes a float that is not finite as null
JsonSerialize(v) ==
    Done(CASE v.ty = "u32" -> Decimal(v.n)
              [] v.ty = "str" -> <<34>> \o v.s \o <<34>>
              [] v.ty = "f64" -> (IF v.x = "1.5" THEN <<49, 46, 53>>        \* 1.5
                                  ELSE <<110, 117, 108, 108>>)            \* null
              [] v.ty = "doc" -> JsonDocOpen \o Decimal(v.n) \o <<125>>)
\* impl ReadFormat for Json: the whole input is one text of the type
JsonDeserialize(ty, b) ==
    CASE ty = "u32" -> IF IsDecimal(b) THEN Decoded(U32(FromDecimal(b))) ELSE InvalidData
      [] ty = "str" -> IF Len(b) >= 2 /\ b[1] = 34 /\ b[Len(b)] = 34
                          /\ \A i \in 2..(Len(b) - 1) : b[i] # 34
                       THEN Decoded(Val("str", 0, SubSeq(b, 2, Len(b) - 1), "none")) ELSE InvalidData
      [] ty = "f64" -> IF b = <<49, 46, 53>> THEN Decoded(Val("f64", 0, <<>>, "1.5")) ELSE InvalidData
      [] ty = "doc" -> IF /\ Len(b) > Len(JsonDocOpen) + 1
                          /\ SubSeq(b, 1, Len(JsonDocOpen)) = JsonDocOpen
                          /\ b[Len(b)] = 125
                          /\ IsDecimal(SubSeq(b, Len(JsonDocOpen) + 1, Len(b) - 1))
                       THEN Decoded(Doc(FromDecimal(SubSeq(b, Len(JsonDocOpen) + 1, Len(b) - 1))))
                       ELSE InvalidData

\* the BSON document {a: n}: its length, the element of type int64 (0x12) named a,
\* the terminator; a u32 is written as an int64
BsonDoc(n) == LE(16, 4) \o <<18, 97, 0>> \o LE(n, 8) \o <<0>>

\* impl SendFormat for Bson: bson::ser::to_vec writes documents only and fails on a
\* value whose top level is no document
BsonSerialize(v) == IF v.ty = "doc" THEN Done(BsonDoc(v.n)) ELSE InvalidData
\* impl ReadFormat for Bson
BsonDeserialize(ty, b) ==
    IF /\ ty = "doc" /\ Len(b) = 16
       /\ SubSeq(b, 1, 4) = LE(16, 4) /\ SubSeq(b, 5, 7) = <<18, 97, 0>> /\ b[16] = 0
    THEN Decoded(Doc(FromLE(SubSeq(b, 8, 15)))) ELSE InvalidData

\* the tags of the Format enum
Tags == 1..4
DeserializeArmSwapped(tag) ==
    CASE tag = 1 -> "Bincode" [] tag = 2 -> "Bson" [] tag = 3 -> "Json" [] tag = 4 -> "Postcard"
\* the arms of match self in Format::serialize and in Format::deserialize
SerializeArm(tag) ==
    CASE tag = 1 -> "Bincode" [] tag = 2 -> "Json" [] tag = 3 -> "Bson" [] tag = 4 -> "Postcard"
DeserializeArm(tag) ==
    CASE tag = 1 -> "Bincode" [] tag = 2 -> "Json" [] tag = 3 -> "Bson" [] tag = 4 -> "Postcard"

\* impl SendFormat for Format
FormatSerialize(tag, v) ==
    LET name == SerializeArm(tag) IN
    CASE name = "Bincode" -> BincodeSerialize(v)
      [] name = "Json" -> JsonSerialize(v)
      [] name = "Bson" -> BsonSerialize(v)
      [] name = "Postcard" -> PostcardSerialize(v)
\* impl ReadFormat for Format
FormatDeserialize(tag, ty, b) ==
    LET name == DeserializeArm(tag) IN
    CASE name = "Bincode" -> BincodeDeserialize(ty, b)
      [] name = "Json" -> JsonDeserialize(ty, b)
      [] name = "Bson" -> BsonDeserialize(ty, b)
      [] name = "Postcard" -> PostcardDeserialize(ty, b)

\* Format::serialize(&value)
Serialize ==
    /\ codec.phase = "value"
    /\ codec' = [codec EXCEPT !.phase = "serialized", !.by = SerializeArm(codec.tag),
                              !.ser = FormatSerialize(codec.tag, codec.v)]
    /\ UNCHANGED <<routeVars, introVars, snowVars, svc, pkt>>

\* Format::deserialize::<T>(&bytes) of the bytes serialize returned, T the value's type
Deserialize ==
    /\ codec.phase = "serialized" /\ codec.ser.ok
    /\ codec' = [codec EXCEPT !.phase = "deserialized", !.back_by = DeserializeArm(codec.tag),
                              !.de = FormatDeserialize(codec.tag, codec.v.ty, codec.ser.bytes)]
    /\ UNCHANGED <<routeVars, introVars, snowVars, svc, pkt>>

FormatInit ==
    /\ AtRest
    /\ svc = NotStarted
    /\ pkt = NotStarted
    /\ codec \in {[phase |-> "value", tag |-> tag, v |-> v, by |-> "none",
                   back_by |-> "none", ser |-> InvalidData, de |-> InvalidData] :
                     tag \in Tags, v \in Values}

FormatSpec == FormatInit /\ [][Serialize \/ Deserialize]_vars

----------------------------------------------------------------------------
(* Claims about the Route operations, checked under Spec. *)

IsInsert(c) == c.op \in InsertOps
IsRemove(c) == c.op \in RemoveOps
SameSlot(c, d) == c.r = d.r /\ c.k = d.k
\* the call task t completes in this step
Completes(t) == task'[t] # task[t]
\* every slot of every route but (r, k) holds after the step what it held before
OthersKept(r, k) ==
    \A r2 \in Routes, k2 \in Keys :
        (r2 # r \/ k2 # k) => routes'[r2][k2] = routes[r2][k2]

\* C1: an insert at a key returns ok exactly when the key was absent when it took
\* effect and in_use otherwise; of two inserts at the same key of the same route that
\* take effect one right after the other (two concurrent calls, in either order), the
\* first on an absent key, the first returns ok and the second in_use.
C1_InsertExclusive ==
    /\ \A t \in Tasks :
          IsInsert(task[t]) =>
              task[t].res = (IF task[t].absent THEN "ok" ELSE "in_use")
    /\ \A t, u \in Tasks :
          ( /\ t # u
            /\ IsInsert(task[t]) /\ IsInsert(task[u])
            /\ SameSlot(task[t], task[u])
            /\ task[u].seq = task[t].seq + 1
            /\ task[t].absent )
          => task[t].res = "ok" /\ task[u].res = "in_use"

\* two tasks inserted at the same absent key one right after the other, one with
\* add_service_at and one with add_route_at
C1_Witness ==
    \E t, u \in Tasks :
        /\ t # u
        /\ task[t].op = "add_service_at" /\ task[u].op = "add_route_at"
        /\ SameSlot(task[t], task[u])
        /\ task[u].seq = task[t].seq + 1
        /\ task[t].absent
        /\ task[t].res = "ok" /\ task[u].res = "in_use"

\* C2: an insert that returns in_use leaves every route as it was: the entry at the
\* key is the one stored before the call and every other key is unchanged.
C2_NoOverwrite ==
    [][\A t \in Tasks :
          (Completes(t) /\ IsInsert(task'[t]) /\ task'[t].res = "in_use")
          => routes' = routes]_vars

\* C3: a remove (remove_at, remove_service, remove_register) of an absent key returns
\* not_found and changes nothing; of a present key (handler or sub-route) it returns
\* ok, the key is absent afterwards and every other key keeps its entry; the key of
\* remove_service::<T> and remove_register::<T> is T::ENDPOINT.
C3_Remove ==
    [][\A t \in Tasks :
          (Completes(t) /\ IsRemove(task'[t])) =>
              LET c == task'[t] IN
              /\ c.op \in {"remove_service", "remove_register"} => c.k = ENDPOINT(c.T)
              /\ IF DashGet(routes[c.r], c.k) = None
                 THEN c.res = "not_found" /\ routes' = routes
                 ELSE /\ c.res = "ok"
                      /\ DashGet(routes'[c.r], c.k) = None
                      /\ OthersKept(c.r, c.k)]_vars

\* one task removed a present sub-route and got ok, the other then removed the same,
\* now absent, key with remove_service and got not_found
C3_Witness ==
    \E t, u \in Tasks :
        /\ t # u
        /\ task[t].op = "remove_at" /\ task[t].old.kind = "route" /\ task[t].res = "ok"
        /\ task[u].op = "remove_service" /\ task[u].res = "not_found"
        /\ SameSlot(task[t], task[u])
        /\ task[u].seq = task[t].seq + 1
        /\ routes[task[t].r][task[t].k] = None

\* C27 as stated: remove_service::<T> removes only the handler of T: when
\* T::ENDPOINT holds a sub-route or the handler of another service, the call leaves
\* the entry in place.
C27_RemoveOnlyOwnHandler ==
    [][\A t \in Tasks :
          (Completes(t) /\ task'[t].op = "remove_service") =>
              LET c == task'[t] IN
              routes[c.r][ENDPOINT(c.T)] # StService(c.T) => routes' = routes]_vars

\* C27 as amended: remove_service::<T> removes whatever T::ENDPOINT holds, the
\* handler of T, the handler of another service or a sub-route, returns ok and
\* leaves the key absent and every other key as it was; it returns not_found and
\* changes nothing when the key is absent.
C27_RemoveServiceByKey ==
    [][\A t \in Tasks :
          (Completes(t) /\ task'[t].op = "remove_service") =>
              LET c == task'[t]
                  e == routes[c.r][ENDPOINT(c.T)] IN
              /\ c.old = e
              /\ routes'[c.r][ENDPOINT(c.T)] = None
              /\ OthersKept(c.r, ENDPOINT(c.T))
              /\ c.res = (IF e \in Storable THEN "ok" ELSE "not_found")
              /\ e = None => routes' = routes]_vars

\* add_service_at stored the handler of service 2 at "a", the ENDPOINT of service
\* 1; remove_service of service 1 came next on the same route, removed it and
\* returned ok
C27_Witness ==
    \E t, u \in Tasks :
        /\ t # u
        /\ task[u].op = "add_service_at" /\ task[u].T = 2 /\ task[u].k = "a"
        /\ task[t].op = "remove_service" /\ task[t].T = 1 /\ task[t].r = task[u].r
        /\ task[t].seq = task[u].seq + 1
        /\ task[t].old = StService(2) /\ task[t].res = "ok"
        /\ routes[task[t].r]["a"] = None

----------------------------------------------------------------------------
(* Claims about the introduction protocol, checked under IntroSpec. *)

\* the path was received (the receive did not fail)
Received == intro.pc # "accept" /\ intro.res # "other"
\* the introduction returned
Returned == intro.pc = "done" /\ intro.res # "other"
Last(s) == s[Len(s)]

RECURSIVE Designated(_, _)
\* the handler a segment sequence designates from route r: every segment but the
\* last names a sub-route, the last names a handler; 0 when there is none
Designated(r, segs) ==
    IF segs = <<>> THEN 0
    ELSE LET e == DashGet(routes[r], Head(segs)) IN
         IF Len(segs) = 1
         THEN (IF e.kind = "service" THEN e.id ELSE 0)
         ELSE (IF e.kind = "route" THEN Designated(e.id, Tail(segs)) ELSE 0)

\* C4: when the path's segments designate a handler (sub-routes down to a handler
\* named by the last segment) exactly that handler is dispatched, once; for every
\* other path no handler is dispatched and NotFound is written.
C4_PathResolution ==
    (Returned /\ ~chan.broken) =>
        LET h == Designated(Root, Components(intro.path)) IN
        IF h # 0
        THEN Len(disp) = 1 /\ disp[1].f = h
        ELSE disp = <<>> /\ chan.wire = <<"NotFound">>

\* C5: the handler is invoked only after the write of the Found status (which
\* reached the wire unless the transport failed), and every record the handler
\* writes on the channel comes after the status record.
C5_StatusBeforeHandler ==
    /\ disp # <<>> => (chan.broken \/ (chan.wire # <<>> /\ Head(chan.wire) = "Found"))
    /\ \A i \in 1..Len(chan.wire) :
          chan.wire[i] = "data" => (i > 1 /\ Head(chan.wire) = "Found")

\* the status and then a record of the handler are on the wire
C5_Witness == chan.wire = <<"Found", "data">>

\* C6: the Context of every dispatch has the starting route as its root, at any
\* depth at which the handler was found.
C6_ContextIsStartingRoute ==
    \A i \in 1..Len(disp) : disp[i].ctx = Root

\* a handler found in a sub-route after three lookups was dispatched with the root
C6_Witness ==
    /\ disp # <<>>
    /\ disp[1].found_in # Root
    /\ disp[1].ctx = Root
    /\ intro.lookups = 3

\* C7: a non-empty path that fails to resolve is answered NotFound on the wire and
\* not_found to the server-side caller.
C7_ResolutionFailure ==
    (Returned /\ intro.path # <<>> /\ intro.err # "none" /\ ~chan.broken) =>
        chan.wire = <<"NotFound">> /\ intro.res = "not_found"

\* C8: the empty path dispatches no handler and makes no lookup; when the write of
\* the status succeeds NotFound is on the wire and the caller gets invalid_data.
C8_EmptyPath ==
    (Received /\ intro.path = <<>>) =>
        /\ disp = <<>> /\ intro.f = 0
        /\ intro.lookups = 0
        /\ (intro.pc = "done" /\ ~chan.broken) =>
              chan.wire = <<"NotFound">> /\ intro.res = "invalid_data"

\* the empty path was answered
C8_Witness ==
    /\ intro.pc = "done" /\ intro.path = <<>>
    /\ intro.res = "invalid_data" /\ chan.wire = <<"NotFound">>

HasLeadingSlash(s) == s # <<>> /\ Head(s) = "/"
HasTrailingSlash(s) == s # <<>> /\ Last(s) = "/"
NameIndexes(s) == {i \in 1..Len(s) : s[i] # "/"}
LastNameIndex(s) == CHOOSE i \in NameIndexes(s) : \A j \in NameIndexes(s) : j <= i
\* "/n" or "n/" for a name n that is a handler of the root
SlashedHandlerName(s) ==
    /\ Len(s) = 2
    /\ \E n \in Names : (s = <<"/", n>> \/ s = <<n, "/">>)
                          /\ DashGet(routes[Root], n).kind = "service"

\* C9 as stated: a handler name of the root with a leading or a trailing slash
\* dispatches no handler and fails with invalid_data.
C9_SlashesRejected ==
    (Returned /\ ~chan.broken /\ SlashedHandlerName(intro.path)) =>
        disp = <<>> /\ intro.res = "invalid_data"

\* C9 as amended: the split yields no empty segment: a leading slash is the segment
\* "/" and a trailing slash is dropped, the other segments being the names in order.
\* A path with a leading slash fails with invalid_data and dispatches nothing when
\* "/" is not a key of the root; a handler name of the root followed by a slash
\* dispatches that handler after Found.
C9_SlashComponents ==
    /\ (Received /\ intro.pc = "inner") =>
          /\ \A i \in 1..Len(intro.id) : intro.id[i] # ""
          /\ HasLeadingSlash(intro.path) => Head(intro.id) = "/"
          /\ Len(intro.id) = Cardinality(NameIndexes(intro.path))
                              + (IF HasLeadingSlash(intro.path) THEN 1 ELSE 0)
          /\ (HasTrailingSlash(intro.path) /\ NameIndexes(intro.path) # {}) =>
                Last(intro.id) = intro.path[LastNameIndex(intro.path)]
    /\ (Returned /\ ~chan.broken /\ HasLeadingSlash(intro.path)
            /\ DashGet(routes[Root], "/") = None) =>
          disp = <<>> /\ intro.res = "invalid_data" /\ chan.wire = <<"NotFound">>
    /\ (Returned /\ ~chan.broken /\ Len(intro.path) = 2 /\ HasTrailingSlash(intro.path)
            /\ DashGet(routes[Root], Head(intro.path)).kind = "service") =>
          /\ Len(disp) = 1 /\ disp[1].f = DashGet(routes[Root], Head(intro.path)).id
          /\ Head(chan.wire) = "Found" /\ intro.res = "ok"

\* the path "a/", a being a handler of the root, dispatched it
C9_Witness ==
    /\ Returned /\ intro.path = <<"a", "/">>
    /\ routes[Root]["a"].kind = "service"
    /\ Len(disp) = 1 /\ intro.res = "ok" /\ chan.wire = <<"Found">>

\* the status records on the wire
Statuses == SelectSeq(chan.wire, LAMBDA rec : rec \in {"Found", "NotFound"})

\* C20: an introduction never writes two status records nor dispatches two
\* handlers; once it has received its path and returned with no write failure, one
\* status record is on the wire, the first record: Found exactly when one handler
\* was invoked with the channel, NotFound exactly when none was, and then the channel,
\* which no handler owns, carries nothing after the status.
C20_OneStatus ==
    /\ Len(Statuses) <= 1 /\ Len(disp) <= 1
    /\ (Returned /\ ~chan.broken) =>
          /\ Len(Statuses) = 1 /\ Head(chan.wire) = Statuses[1]
          /\ Statuses[1] = "Found" <=> Len(disp) = 1
          /\ Statuses[1] = "NotFound" <=> disp = <<>>
          /\ Statuses[1] = "NotFound" => chan.wire = <<"NotFound">> /\ chan.writes = 0

\* a path that named a sub-route and then a key absent from it was answered NotFound
\* after two lookups, with no dispatch
C20_Witness ==
    /\ Returned /\ ~chan.broken
    /\ intro.lookups = 2 /\ intro.res = "not_found"
    /\ chan.wire = <<"NotFound">> /\ disp = <<>>

RECURSIVE FirstHandler(_, _)
\* the handler the walk from route r reaches along the segments: the first entry
\* that is a handler, every entry before it being a sub-route; 0 when a segment is
\* absent or the segments end first
FirstHandler(r, segs) ==
    IF segs = <<>> THEN 0
    ELSE LET e == DashGet(routes[r], Head(segs)) IN
         IF e.kind = "service" THEN e.id
         ELSE IF e.kind = "route" THEN FirstHandler(e.id, Tail(segs))
         ELSE 0

\* C21: introduce_static and introduce_static_unspawn resolve and reply alike: in
\* either variant, once the path is received and the introduction is over, the
\* handler dispatched (or none), its context and the status record written are the
\* same function of the registry and the path, whichever variant ran; the variants
\* differ in what the acceptor holds meanwhile: the spawning variant has returned
\* before the path is read, the blocking variant returns when the introduction is over.
C21_VariantsEquivalent ==
    /\ \A v \in Variants :
          (intro.variant = v /\ Returned) =>
              LET h == FirstHandler(Root, Components(intro.path)) IN
              /\ IF h = 0 THEN disp = <<>>
                 ELSE Len(disp) = 1 /\ disp[1].f = h /\ disp[1].ctx = context(Root)
              /\ ~chan.broken =>
                    /\ chan.wire # <<>>
                    /\ Head(chan.wire) = (IF h = 0 THEN "NotFound" ELSE "Found")
    /\ intro.pc = "accept" => (AcceptorResult = "unit" <=> intro.variant = "spawn")
    /\ (intro.variant = "unspawn" /\ intro.pc # "done") => AcceptorResult = "none"
    /\ (intro.variant = "unspawn" /\ intro.pc = "done") => AcceptorResult = intro.res

\* the spawning variant, whose acceptor had returned before the path was read,
\* dispatched the handler found in a sub-route after writing Found
C21_Witness ==
    /\ intro.variant = "spawn" /\ Returned /\ AcceptorResult = "unit"
    /\ Len(intro.path) = 3
    /\ Len(disp) = 1 /\ disp[1].found_in # Root
    /\ chan.wire = <<"Found">>

\* C22: static_switch and __introduce_inner_static resolve alike: on the same
\* registry and path either both call the same handler with a context of the same
\* route, or both return an error of the same kind and the channel with nothing
\* written on it; the introduce routine writes Found before it calls the handler,
\* the switch routine writes nothing.
C22_SwitchMatchesIntroduce ==
    /\ intro.sw # NotStarted =>
          /\ intro.sw.f = intro.f
          /\ intro.sw.wire = <<>>
          /\ IF intro.f # 0
             THEN /\ intro.sw.res = "ok" /\ intro.err = "none"
                  /\ Len(disp) = 1 /\ disp[1].f = intro.sw.f
                  /\ disp[1].ctx = intro.sw.ctx
                  /\ chan.broken \/ (chan.wire # <<>> /\ Head(chan.wire) = "Found")
             ELSE /\ intro.sw.res = intro.err /\ intro.err # "none"
                  /\ disp = <<>>
    /\ intro.pc = "reply" => chan = ChanInit

\* both routines reached the handler of a sub-route, the introduce routine having
\* written Found
C22_Witness ==
    /\ intro.sw # NotStarted /\ intro.sw.f # 0 /\ intro.sw.res = "ok"
    /\ intro.lookups = 2 /\ Len(disp) = 1 /\ disp[1].f = intro.sw.f
    /\ chan.wire = <<"Found">> /\ intro.sw.wire = <<>>

\* C25: a handler is invoked on a channel only after the Found status was written
\* on it successfully: when the write of Found fails no handler is invoked and the
\* introduction returns the failure to its caller.
C25_FoundWrittenBeforeHandler ==
    /\ disp # <<>> => (chan.wire # <<>> /\ Head(chan.wire) = "Found")
    /\ (intro.pc = "done" /\ intro.f # 0 /\ chan.wire = <<>>) =>
          (disp = <<>> /\ intro.res \notin {"ok", "none"})

----------------------------------------------------------------------------
(* Claims about the handshake, checked under SnowSpec. *)

RecvPcs == {"flip_recv", "i_recv_key", "i_recv_msg", "r_recv_msg"}
\* p waits in a receive and no frame is in flight to it
Blocked(p) == peer[p].pc \in RecvPcs /\ net[p] = <<>>

\* C10: with no I/O or crypto error, once one peer's constructor has returned its
\* session the other peer is not left blocked in a receive for a handshake frame,
\* and two returned sessions are the same negotiated state.
C10_BothReturnSession ==
    \A p \in Peers :
        (peer[Other(p)].res = "session" /\ peer[p].res # "other") =>
            /\ ~Blocked(p)
            /\ peer[p].res = "session" => peer[p].sess = peer[Other(p)].sess

\* C11: both peers leave the coin-flip in the same round with complementary roles,
\* the initiator being the peer whose draw of that round was larger; a peer that has
\* left the loop leaves the other waiting for that same round's draw; after a round
\* of equal draws neither peer has a role and both draw again.
C11_CoinFlip ==
    \A p \in Peers :
        LET q == Other(p) IN
        /\ peer[p].role # "none" =>
              /\ peer[q].round = peer[p].round
              /\ peer[p].local_num # peer[q].local_num
              /\ peer[p].role = (IF peer[p].local_num > peer[q].local_num
                                 THEN "initiator" ELSE "responder")
              /\ peer[q].role = "none" => peer[q].pc = "flip_recv"
              /\ peer[q].role # "none" => peer[q].role # peer[p].role
        /\ (peer[p].pc = "draw" /\ peer[p].round > 0) =>
              /\ peer[p].role = "none" /\ peer[q].role = "none"
              /\ \/ peer[q].round = peer[p].round /\ peer[q].local_num = peer[p].local_num
                 \/ peer[q].round = peer[p].round + 1 /\ peer[q].pc = "flip_recv"

\* after a round of equal draws both peers drew again and left the loop in the
\* second round, peer 1 as the initiator
C11_Witness ==
    /\ peer[1].round = 2 /\ peer[2].round = 2
    /\ peer[1].role = "initiator" /\ peer[2].role = "responder"
    /\ peer[1].local_num > peer[2].local_num

\* C12: the frame the initiator installs as the remote public key is the responder's
\* generated public key, and the frame the responder feeds to read_message as the
\* first handshake message is the output of the initiator's write_message.
C12_KeysBeforeHandshake ==
    \A p \in Peers :
        /\ peer[p].rs # NoFrame =>
              peer[p].rs = VecFrame("public_key", PublicKey(Other(p)), "")
        /\ (peer[p].role = "responder" /\ peer[p].re # "") =>
              peer[p].re = Ephemeral(Other(p))

----------------------------------------------------------------------------
(* Claims about registration and the calls by endpoint, checked under RegSpec. *)

RegisterOps == {"register", "register_route", "register_route_at"}
\* what the callback of R leaves in a route that was empty
Populated(R) ==
    [EmptyRoute EXCEPT ![ENDPOINT(CallbackService(R))] = StService(CallbackService(R))]
\* every route but r and f holds after the step what it held before
RoutesKept(r, f) == \A r2 \in AllRoutes \ {r, f} : routes'[r2] = routes[r2]

\* the step of call c linked at key k of the receiving route a route that was empty
\* and referenced nowhere before the step and holds the callback's insertions after
\* it, and changed no other key of the receiving route
LinksFreshRoute(c, k) ==
    /\ routes'[c.r][k].kind = "route"
    /\ LET f == routes'[c.r][k].id IN
          /\ f \in FreshRoutes
          /\ routes[f] = EmptyRoute
          /\ \A r2 \in AllRoutes, k2 \in Keys : routes[r2][k2] # StRoute(f)
          /\ routes'[f] = Populated(c.T)
          /\ RoutesKept(c.r, f)
    /\ \A k2 \in Keys \ {k} : routes'[c.r][k2] = routes[c.r][k2]

\* C16 as stated: each of register, register_route and register_route_at runs the
\* callback on a fresh, empty sub-route and links it into the receiving route under
\* one key; the callback's insertions do not land in the receiving route, whose
\* other keys are unchanged.
C16_RegisterFreshSubRoute ==
    [][\A t \in Tasks :
          (Completes(t) /\ task'[t].op \in RegisterOps) =>
              \E k \in Keys : LinksFreshRoute(task'[t], k)]_vars

\* C16 as amended: register_route_at links the fresh, populated sub-route under the
\* given key and register_route under the type's ENDPOINT, the other keys of the
\* receiving route unchanged; register creates no sub-route: its callback runs on
\* the receiving route, where its insertion lands.
C16_RegisterRouteFresh ==
    [][\A t \in Tasks :
          (Completes(t) /\ task'[t].op \in RegisterOps) =>
              LET c == task'[t]
                  S == CallbackService(c.T) IN
              /\ c.op = "register_route_at" => LinksFreshRoute(c, c.k)
              /\ c.op = "register_route" =>
                    c.k = RegisterEndpoint(c.T) /\ LinksFreshRoute(c, c.k)
              /\ c.op = "register" =>
                    /\ routes'[c.r][ENDPOINT(S)] = StService(S)
                    /\ \A k2 \in Keys \ {ENDPOINT(S)} : routes'[c.r][k2] = routes[c.r][k2]
                    /\ \A r2 \in AllRoutes \ {c.r} : routes'[r2] = routes[r2]]_vars

\* one task registered type 1 on the root with register, which put the callback's
\* service at "b" of the root; the other then registered it with register_route,
\* which linked at "a" a new route holding that service and left "b" as it was
C16_Witness ==
    \E t, u \in Tasks :
        /\ task[t].op = "register" /\ task[t].r = Root /\ task[t].T = 1
        /\ task[u].op = "register_route" /\ task[u].r = Root /\ task[u].T = 1
        /\ task[u].seq = task[t].seq + 1 /\ task[u].res = "ok"
        /\ routes[Root]["b"] = StService(2)
        /\ routes[Root]["a"].kind = "route"
        /\ routes[routes[Root]["a"].id] = Populated(1)

\* C23: when the register callback of T returns an error, register, register_route
\* and register_route_at return that error and the receiving route holds exactly the
\* entries it held before the call.
C23_CallbackErrorFailsClosed ==
    [][\A t \in Tasks :
          (Completes(t) /\ task'[t].op \in RegisterOps) =>
              LET c == task'[t]
                  top_route == IF c.op = "register" THEN c.r ELSE c.val.id
                  cb == Register(routes, top_route, c.T) IN
              cb.res # "ok" => (c.res = cb.res /\ routes'[c.r] = routes[c.r])]_vars

\* C19: add_service::<T> returns what add_service_at::<T>(T::ENDPOINT, ..) returns
\* and changes the route as it does: ok on an absent key and in_use otherwise, the
\* handler of T stored at T::ENDPOINT, nothing else changed.  A remove_service::<T>
\* that comes right after an add_service::<T> on the same route which found
\* T::ENDPOINT absent returns ok, as the add did, and the route is again what it was
\* before the two calls.
C19_AddServiceByEndpoint ==
    [][\A t \in Tasks :
          /\ (Completes(t) /\ task'[t].op = "add_service") =>
                LET c == task'[t] IN
                /\ c.k = ENDPOINT(c.T)
                /\ c.res = (IF DashGet(routes[c.r], ENDPOINT(c.T)) = None
                            THEN "ok" ELSE "in_use")
                /\ routes'[c.r][ENDPOINT(c.T)] = StService(c.T)
                /\ OthersKept(c.r, ENDPOINT(c.T))
                /\ \A f \in FreshRoutes : routes'[f] = routes[f]
          /\ (Completes(t) /\ task'[t].op = "remove_service") =>
                LET c == task'[t] IN
                \A u \in Tasks :
                    ( /\ task[u].op = "add_service" /\ task[u].seq = nops
                      /\ task[u].r = c.r /\ task[u].T = c.T /\ task[u].absent )
                    => /\ task[u].res = "ok" /\ c.res = "ok"
                       /\ routes'[c.r] = [routes[c.r] EXCEPT ![ENDPOINT(c.T)] = None]
                       /\ routes[c.r] = [routes'[c.r] EXCEPT ![ENDPOINT(c.T)] = StService(c.T)]
                       /\ \A r2 \in AllRoutes \ {c.r} : routes'[r2] = routes[r2]]_vars

\* on a route that keeps another handler, add_service of service 1 found "a" absent
\* and returned ok, remove_service of service 1 came next and returned ok, and "a"
\* is absent again
C19_Witness ==
    \E t, u \in Tasks, r \in Routes :
        /\ task[u].op = "add_service" /\ task[u].T = 1 /\ task[u].r = r
        /\ task[u].absent /\ task[u].res = "ok" /\ task[u].k = "a"
        /\ task[t].op = "remove_service" /\ task[t].T = 1 /\ task[t].r = r
        /\ task[t].seq = task[u].seq + 1 /\ task[t].res = "ok"
        /\ routes[r]["a"] = None /\ routes[r]["b"] = StService(2)

----------------------------------------------------------------------------
(* Claims about an introduction concurrent with Route calls, checked under       *)
(* ConcSpec.                                                                     *)

\* the introduction is suspended in channel I/O: the await of the write of a status
Suspended == intro.pc \in {"tx_found", "reply"}

\* C17: a pending add_service_at, add_route_at or remove_at is never kept waiting
\* by an introduction suspended in channel I/O: while the introduction awaits the
\* write of a status it holds no guard of the key the call is about.
C17_RouteOpsNeverWait ==
    \A t \in Tasks :
        (task[t].res = "pending" /\ Suspended) =>
            <<task[t].r, task[t].k>> \notin Guards

\* the key whose entry the introduction matched last
ResolvedKey ==
    LET segments == Components(intro.path) IN segments[Len(segments) - Len(intro.id)]
\* every task has made one call at most, so that the record of a task is the record
\* of every call it made; remove_at(k) on the root returned ok before the path was
\* received; no insert at k of the root took effect at any time
RemovedForGood(k) ==
    /\ nops = Cardinality({t \in Tasks : task[t].op # "none"})
    /\ \E t \in intro.before :
          LET c == task[t] IN
          c.op = "remove_at" /\ c.r = Root /\ c.k = k /\ c.res = "ok"
    /\ \A t \in Tasks :
          LET c == task[t] IN
          ~(IsInsert(c) /\ c.r = Root /\ c.k = k /\ c.res # "pending")

\* C26: an introduction is linearizable against concurrent Route calls: no lookup
\* precedes the receipt of the path; the handler found by a lookup is the entry
\* stored at the resolved key and, its guard being alive, it is still stored there
\* until it is dispatched, and it is the handler dispatched; when remove_at(k) on
\* the root returned ok before the introduction for the path k received its path
\* and k was not added again, the introduction dispatches nothing and replies
\* NotFound.
C26_Linearizable ==
    /\ intro.pc = "accept" => (intro.lookups = 0 /\ intro.f = 0 /\ disp = <<>>)
    /\ intro.pc \in {"tx_found", "dispatch"} =>
          /\ routes[intro.map][ResolvedKey] = StService(intro.f)
          /\ disp = <<>>
    /\ disp # <<>> =>
          Len(disp) = 1 /\ disp[1].f = intro.f /\ disp[1].found_in = intro.map
    /\ \A k \in Keys :
          (Returned /\ intro.path = <<k>> /\ RemovedForGood(k)) =>
              /\ disp = <<>>
              /\ ~chan.broken => chan.wire = <<"NotFound">>

\* remove_at("a") on the root, which held a handler there, returned ok, then the
\* path "a" was received while no other call had been made: NotFound, no dispatch
C26_Witness ==
    /\ Returned /\ intro.path = <<"a">> /\ RemovedForGood("a")
    /\ \E t \in intro.before : task[t].old = StService(1)
    /\ disp = <<>> /\ chan.wire = <<"NotFound">>

----------------------------------------------------------------------------
(* Claims about the #[service] attribute, checked under MacroSpec. *)

\* C18: the generated closure takes the metadata, the channel and the context in
\* that order.  The first declared parameter is the metadata (its type is the Meta type, its
\* name and type those of the closure's metadata parameter and of the parameter of
\* fn service), the second is the closure's channel parameter, the third its context
\* parameter; a parameter that is not declared has its default: unit metadata, the
\* default Channel type, the default Ctx type.
C18_PositionalBinding ==
    svc.phase = "expanded" =>
        LET n == Len(svc.inputs)
            g == svc.item IN
        /\ IF n >= 1
           THEN /\ g.Meta = svc.inputs[1].ty
                /\ g.service_param = svc.inputs[1].ident
                /\ g.closure[1] = svc.inputs[1]
           ELSE g.Meta = "()" /\ g.closure[1].ty = "()"
        /\ IF n >= 2
           THEN g.closure[2] = svc.inputs[2]
           ELSE g.closure[2].ty = "::canary::Channel"
        /\ IF n >= 3
           THEN g.closure[3] = svc.inputs[3]
           ELSE g.closure[3].ty = "::canary::Ctx"

----------------------------------------------------------------------------
(* Claims about the transport encryption, checked under CryptSpec. *)

\* the number of packets of an n-byte buffer: ceil(n / PACKET_LEN)
PacketsOf(n) == (n + PACKET_LEN - 1) \div PACKET_LEN

\* C13: decrypt(encrypt_packets(b)) succeeds and returns exactly b: the same length
\* and the same bytes, nothing inserted between or after the packets.
C13_RoundTrip ==
    pkt.phase = "decrypted" =>
        /\ pkt.res = "ok"
        /\ BufLen(pkt.bytes) = BufLen(pkt.buf)
        /\ Canon(pkt.bytes) = Canon(pkt.buf)

\* C14: the ciphertext of an n-byte buffer is the concatenation, in order, of
\* ceil(n / 65519) packets; packet i is the encryption under nonce 0 of bytes
\* 65519 (i - 1) onwards of the buffer, at most 65519 of them, followed by its tag,
\* so it has 16 bytes more than its plaintext and at most 65535 bytes, and the
\* ciphertext has n + 16 ceil(n / 65519) bytes; the pieces decrypt cuts the
\* ciphertext into are those packets, in that order.
C14_PacketSizes ==
    pkt.phase \in {"encrypted", "decrypted"} =>
        LET n == BufLen(pkt.buf) IN
        /\ pkt.phase = "encrypted" => pkt.res = "ok"
        /\ Len(pkt.packets) = PacketsOf(n)
        /\ \A i \in 1..Len(pkt.packets) :
              LET from == PACKET_LEN * (i - 1)
                  size == IF n - from < PACKET_LEN THEN n - from ELSE PACKET_LEN
                  payload == Take(pkt.packets[i], size) IN
              /\ size >= 1
              /\ BufLen(pkt.packets[i]) = size + 16
              /\ BufLen(pkt.packets[i]) <= 65535
              /\ Canon(Decipher(payload)) = Plain(from, size)
              /\ \A j \in 1..Len(payload) : payload[j].kind = "ct" /\ payload[j].nonce = 0
              /\ Drop(pkt.packets[i], size) = <<TagOf(pkt.key, 0, payload)>>
        /\ pkt.total = Concat(pkt.packets)
        /\ BufLen(pkt.total) = n + 16 * PacketsOf(n)
        /\ pkt.phase = "decrypted" => pkt.pieces = pkt.packets

\* a buffer of two whole packets and one byte was encrypted into three packets, the
\* last of 17 bytes, and decrypt cut the ciphertext into the same three packets
C14_Witness ==
    /\ pkt.phase = "decrypted"
    /\ BufLen(pkt.buf) = 2 * PACKET_LEN + 1
    /\ Len(pkt.packets) = 3 /\ BufLen(pkt.packets[3]) = 17
    /\ pkt.pieces = pkt.packets
    /\ BufLen(pkt.total) = 2 * PACKET_LEN + 1 + 48

\* C24: decrypt of a record in which a packet is truncated or does not
\* authenticate (a piece of the received record is not the packet that was sent)
\* returns an error of kind other and no plaintext, not even that of the packets
\* before the bad one; an error of encrypt_packets comes with no ciphertext.
C24_NoPartialOutput ==
    /\ pkt.phase = "decrypted_corrupt" =>
          ( (\E i \in 1..Len(pkt.pieces) :
                i > Len(pkt.packets) \/ pkt.pieces[i] # pkt.packets[i])
            => (pkt.res = "other" /\ pkt.bytes = <<>>) )
    /\ (pkt.phase = "encrypted" /\ pkt.res # "ok") =>
          (pkt.total = <<>> /\ pkt.packets = <<>>)

\* of a record of three packets the first two arrived whole and the third without
\* its last byte: decrypt returned other and no plaintext
C24_Witness ==
    /\ pkt.phase = "decrypted_corrupt"
    /\ Len(pkt.packets) = 3 /\ Len(pkt.pieces) = 3
    /\ pkt.pieces[1] = pkt.packets[1] /\ pkt.pieces[2] = pkt.packets[2]
    /\ BufLen(pkt.pieces[3]) = BufLen(pkt.packets[3]) - 1
    /\ pkt.res = "other" /\ pkt.bytes = <<>>

----------------------------------------------------------------------------
(* Claims about serialization, checked under FormatSpec. *)

\* the values a codec encodes to bytes that it decodes: Bson encodes documents
\* only, Json has no text for a float that is not finite
Encodable(name, v) ==
    CASE name = "Bson" -> v.ty = "doc"
      [] name = "Json" -> ~(v.ty = "f64" /\ v.x = "inf")
      [] OTHER -> TRUE

====
